---- MODULE Spec2Model ----
(***************************************************************************)
(* Model of OSIRISv2/3d-vis/vis.py: a script that loads a CSV table of     *)
(* spherical measurements, converts two paired series to Cartesian points  *)
(* with spherical_to_cartesian_custom, and draws them with matplotlib.     *)
(*                                                                         *)
(* Representation.                                                         *)
(*  - A Python float is a fixed-point integer in units of 1/Scale.         *)
(*  - A CSV cell is a tuple of one-character strings, so that float() is   *)
(*    modelled as a parser and not as the identity.                        *)
(*  - The file is the sequence of records csv.reader yields for it (each   *)
(*    a tuple of cells; a blank line is the empty record).                 *)
(*  - Column names are ASCII stand-ins for the UTF-8 names of the source:  *)
(*    "Test theta (deg)" for "Test θ (°)" and so on.                       *)
(***************************************************************************)
EXTENDS Integers, Sequences, FiniteSets, TLC

VARIABLES
    fileExists,   \* whether csv_file names a readable file (environment)
    file,         \* the records of the file, header record first (environment)
    pc,           \* position of the script
    line,         \* number of records the DictReader has consumed
    R_list, theta_test, phi_test, theta_real, phi_real,
    test_xyz, real_xyz,
    x_test, y_test, z_test, x_real, y_real, z_real,
    seg,          \* iterations of the segment loop completed
    plotCalls,    \* the calls issued to matplotlib, in order
    error,        \* the unhandled exception that ended the run, if any
    arg, ret      \* one call of spherical_to_cartesian_custom on its own

vars == <<fileExists, file, pc, line, R_list, theta_test, phi_test, theta_real,
          phi_real, test_xyz, real_xyz, x_test, y_test, z_test, x_real, y_real,
          z_real, seg, plotCalls, error, arg, ret>>

-----------------------------------------------------------------------------
(* Bounds *)

MaxRows == 2

-----------------------------------------------------------------------------
(* Fixed-point floats *)

Scale == 1000

\* pi in units of 1/Scale
PI == 3142

Abs(a) == IF a < 0 THEN -a ELSE a

Min2(a, b) == IF a < b THEN a ELSE b

\* product of two fixed-point numbers, rounded to the nearest unit
Mul(a, b) == (a * b + Scale \div 2) \div Scale

\* np.radians: degrees * pi / 180
radians(deg) == ((deg * PI) \div 180 + Scale \div 2) \div Scale

RECURSIVE CosSeries(_, _, _, _)
\* the terms k.. of the cosine series, t being the magnitude of term k-1
CosSeries(r2, t, k, last) ==
    IF k > last THEN 0
    ELSE LET tk == ((t * r2) \div Scale) \div ((2 * k - 1) * (2 * k))
         IN  (IF k % 2 = 1 THEN -tk ELSE tk) + CosSeries(r2, tk, k + 1, last)

\* np.cos of an angle in radians: reduction to [0, pi/2], then the series
cos(r) ==
    LET a == r % (2 * PI)
        b == IF a > PI THEN 2 * PI - a ELSE a
        neg == 2 * b > PI
        c == IF neg THEN PI - b ELSE b
        v == Scale + CosSeries(Mul(c, c), Scale, 1, 5)
    IN  IF neg THEN -v ELSE v

\* np.sin
sin(r) == cos(r - PI \div 2)

\* z of the textbook convention, theta taken from the +Z axis
z_textbook(R, theta) == Mul(R, cos(theta))

\* line 17
z_custom(R, theta) == Mul(R, sin(theta))

\* y without the radius
y_unscaled(R, theta, phi) == Mul(cos(theta), sin(phi))

\* line 16
y_custom(R, theta, phi) == Mul(Mul(R, cos(theta)), sin(phi))

\* lines 7-18

spherical_to_cartesian_custom(R, theta_deg, phi_deg) ==
    LET theta == radians(theta_deg)
        phi == radians(phi_deg)
        x == Mul(Mul(R, cos(theta)), cos(phi))
        y == y_custom(R, theta, phi)
        z == z_custom(R, theta)
    IN  <<x, y, z>>

-----------------------------------------------------------------------------
(* float(): parsing a cell *)

IsSpace(c) == c \in {" ", "\t"}

IsDigit(c) == c \in {"0", "1", "2", "3", "4", "5", "6", "7", "8", "9"}

DigitVal(c) ==
    CASE c = "0" -> 0 [] c = "1" -> 1 [] c = "2" -> 2 [] c = "3" -> 3
      [] c = "4" -> 4 [] c = "5" -> 5 [] c = "6" -> 6 [] c = "7" -> 7
      [] c = "8" -> 8 [] c = "9" -> 9

RECURSIVE LStrip(_)
LStrip(s) == IF s # <<>> /\ IsSpace(Head(s)) THEN LStrip(Tail(s)) ELSE s

RECURSIVE RStrip(_)
RStrip(s) ==
    IF s # <<>> /\ IsSpace(s[Len(s)]) THEN RStrip(SubSeq(s, 1, Len(s) - 1)) ELSE s

\* position of the first "." of s, or Len(s) + 1
DotPos(s) ==
    LET dots == {i \in 1..Len(s) : s[i] = "."}
    IN  IF dots = {} THEN Len(s) + 1 ELSE CHOOSE i \in dots : \A j \in dots : i <= j

RECURSIVE IntOf(_)
\* value of a string of digits
IntOf(s) == IF s = <<>> THEN 0 ELSE 10 * IntOf(SubSeq(s, 1, Len(s) - 1)) + DigitVal(s[Len(s)])

RECURSIVE FracOf(_, _)
\* value, in units of 1/Scale, of the digits s after the point, w being the
\* weight of the first of them; digits below one unit are dropped
FracOf(s, w) == IF s = <<>> \/ w = 0 THEN 0 ELSE DigitVal(Head(s)) * w + FracOf(Tail(s), w \div 10)

\* the text of a cell without surrounding blanks, split into sign and digits
Unsigned(s) ==
    LET t == RStrip(LStrip(s))
    IN  IF t # <<>> /\ Head(t) \in {"+", "-"} THEN Tail(t) ELSE t

IsNegative(s) == LET t == LStrip(s) IN t # <<>> /\ Head(t) = "-"

\* whether float(s) succeeds: [blanks][sign]digits[.digits][blanks], at least
\* one digit (exponents, "inf", "nan" and "_" are not in the cells modelled)
IsNumeric(s) ==
    LET u == Unsigned(s)
        d == DotPos(u)
        ip == SubSeq(u, 1, d - 1)
        fp == SubSeq(u, d + 1, Len(u))
    IN  /\ \A i \in 1..Len(ip) : IsDigit(ip[i])
        /\ \A i \in 1..Len(fp) : IsDigit(fp[i])
        /\ Len(ip) + Len(fp) >= 1

\* the value of float(s) for a numeric s
FloatOf(s) ==
    LET u == Unsigned(s)
        d == DotPos(u)
        ip == SubSeq(u, 1, d - 1)
        fp == SubSeq(u, d + 1, Len(u))
        m == IntOf(ip) * Scale + FracOf(fp, Scale \div 10)
    IN  IF IsNegative(s) THEN -m ELSE m

-----------------------------------------------------------------------------
(* csv.DictReader and the row lookups of the loader *)

COL_R == "R (cm)"
COL_THETA_TEST == "Test theta (deg)"
COL_PHI_TEST == "Test phi (deg)"
COL_THETA_REAL == "Real theta (deg)"
COL_PHI_REAL == "Real phi (deg)"

\* the five lookups of the loop body, in statement order
Columns == <<COL_R, COL_THETA_TEST, COL_PHI_TEST, COL_THETA_REAL, COL_PHI_REAL>>

\* DictReader.fieldnames: the first record of the file
fieldnames(f) == IF f = <<>> THEN <<>> ELSE f[1]

\* the record the next iteration yields: the first non-blank record after
\* the header and after the ones consumed, or 0 at the end of the file
NextRecord(f, consumed) ==
    LET from == IF consumed < 1 THEN 2 ELSE consumed + 1
        rest == {j \in from..Len(f) : f[j] # <<>>}
    IN  IF rest = {} THEN 0 ELSE CHOOSE j \in rest : \A k \in rest : j <= k

\* the position a key's value is taken from: with a repeated name the last wins
KeyIndex(names, key) ==
    LET at == {j \in 1..Len(names) : names[j] = key}
    IN  IF at = {} THEN 0 ELSE CHOOSE j \in at : \A k \in at : k <= j

\* the lookup written row.get(key): a missing column reads as None
Field_get(names, rec, key) ==
    LET j == KeyIndex(names, key)
    IN  IF j = 0 \/ j > Len(rec) THEN [err |-> "TypeError", val |-> 0]
        ELSE IF ~IsNumeric(rec[j]) THEN [err |-> "ValueError", val |-> 0]
        ELSE [err |-> "none", val |-> FloatOf(rec[j])]

\* float(row[key]) for the record rec read under the header names:
\*   KeyError when no column has that name, TypeError when the record is too
\*   short to have the field (restval None), ValueError when the text is not
\*   a number
Field(names, rec, key) ==
    LET j == KeyIndex(names, key)
    IN  IF j = 0 THEN [err |-> "KeyError", val |-> 0]
        ELSE IF j > Len(rec) THEN [err |-> "TypeError", val |-> 0]
        ELSE IF ~IsNumeric(rec[j]) THEN [err |-> "ValueError", val |-> 0]
        ELSE [err |-> "none", val |-> FloatOf(rec[j])]

\* the fourth statement reading the column of the second
RowFields_copied(names, rec) ==
    [k \in 1..5 |-> Field(names, rec, Columns[IF k = 4 THEN 2 ELSE k])]

\* the five conversions of one iteration of the loop
RowFields(names, rec) == [k \in 1..5 |-> Field(names, rec, Columns[k])]

\* all five conversions evaluated before any is reported
FirstBad_last(fs) ==
    LET bad == {k \in 1..5 : fs[k].err # "none"}
    IN  IF bad = {} THEN 0 ELSE CHOOSE k \in bad : \A j \in bad : j <= k

\* the first statement of the loop body that raises, or 0
FirstBad(fs) ==
    LET bad == {k \in 1..5 : fs[k].err # "none"}
    IN  IF bad = {} THEN 0 ELSE CHOOSE k \in bad : \A j \in bad : k <= j

-----------------------------------------------------------------------------
(* The files and the arguments the model runs on *)

\* cells
c_0 == <<"0">>
c_2 == <<"2">>
c_1p5 == <<"1", ".", "5">>
c_30 == <<"3", "0">>
c_45 == <<"4", "5">>
c_m45 == <<"-", "4", "5">>
c_60 == <<"6", "0">>
c_90 == <<"9", "0">>
c_90sp == <<" ", "9", "0", ".", "0", " ">>
c_180 == <<"1", "8", "0">>
c_270 == <<"2", "7", "0">>
c_400 == <<"+", "4", "0", "0">>
c_x == <<"x">>
c_abc == <<"a", "b", "c">>
c_1p2p3 == <<"1", ".", "2", ".", "3">>
c_empty == <<>>
c_note == <<"n", "o", "t", "e">>

\* header records
FullHeader == Columns

ShuffledHeader == <<COL_PHI_REAL, COL_THETA_REAL, COL_R, COL_PHI_TEST, COL_THETA_TEST, "Note">>

\* the full header without its k-th name
HeaderWithout(k) == SubSeq(FullHeader, 1, k - 1) \o SubSeq(FullHeader, k + 1, 5)

RenamedHeader == <<"R", COL_THETA_TEST, COL_PHI_TEST, COL_THETA_REAL, COL_PHI_REAL>>

Headers ==
    {FullHeader, ShuffledHeader, RenamedHeader, <<>>} \cup {HeaderWithout(k) : k \in 1..5}

\* data records: complete numeric ones, a blank line, and ones with cells
\* that are not numbers or are missing
GoodRecords ==
    { <<c_2, c_0, c_90, c_30, c_0>>,
      <<c_0, c_30, c_45, c_m45, c_180>>,
      <<c_1p5, c_90sp, c_400, c_60, c_270, c_note>> }

BadRecords ==
    { <<c_2, c_x, c_90, c_30, c_0>>,
      <<c_empty, c_0, c_abc, c_30, c_0>>,
      <<c_2, c_0, c_90, c_30, c_1p2p3>>,
      <<c_2, c_0, c_90>> }

Records == GoodRecords \cup BadRecords \cup {<<>>}

RECURSIVE SeqsUpTo(_, _)
\* the sequences over S of length at most n
SeqsUpTo(S, n) ==
    IF n = 0 THEN {<<>>}
    ELSE LET shorter == SeqsUpTo(S, n - 1)
         IN  shorter \cup {Append(q, e) : q \in {r \in shorter : Len(r) = n - 1}, e \in S}

\* the empty file, and every header followed by at most MaxRows records
Files == {<<>>} \cup {<<h>> \o rows : h \in Headers, rows \in SeqsUpTo(Records, MaxRows)}

\* arguments of a single call of the transform: radius and angles in degrees
Radii == {0, 500, 1000, 1500, 2000, -1000}

Angles == {d * Scale : d \in {-360, -90, -45, 0, 30, 45, 60, 90, 135, 180, 270, 400}}

-----------------------------------------------------------------------------
(* The script *)

NoError == [kind |-> "none", lineno |-> 0]

Raise(kind, lineno) == [kind |-> kind, lineno |-> lineno]

NoCall == <<>>

Init ==
    /\ fileExists \in BOOLEAN
    /\ file \in (IF fileExists THEN Files ELSE {<<>>})
    /\ pc = "open"
    /\ line = 0
    /\ R_list = <<>> /\ theta_test = <<>> /\ phi_test = <<>>
    /\ theta_real = <<>> /\ phi_real = <<>>
    /\ test_xyz = <<>> /\ real_xyz = <<>>
    /\ x_test = <<>> /\ y_test = <<>> /\ z_test = <<>>
    /\ x_real = <<>> /\ y_real = <<>> /\ z_real = <<>>
    /\ seg = 0
    /\ plotCalls = <<>>
    /\ error = NoError
    /\ arg = NoCall
    /\ ret = NoCall

env == <<fileExists, file, arg, ret>>
loaded == <<R_list, theta_test, phi_test, theta_real, phi_real>>
points == <<test_xyz, real_xyz>>
unpacked == <<x_test, y_test, z_test, x_real, y_real, z_real>>

\* line 25: open(csv_file)
Open ==
    /\ pc = "open"
    /\ IF fileExists
       THEN pc' = "read" /\ error' = error
       ELSE pc' = "error" /\ error' = Raise("FileNotFoundError", 25)
    /\ UNCHANGED <<env, line, loaded, points, unpacked, seg, plotCalls>>

\* a failing conversion replaced by 0.0
Appended_default(list, fs, k, bad) ==
    IF bad = 0 \/ k <= bad THEN Append(list, fs[k].val) ELSE list

\* the list a column is appended to, after an iteration in which the
\* statements before statement bad ran (all five when bad = 0)
Appended(list, fs, k, bad) ==
    IF bad = 0 \/ k < bad THEN Append(list, fs[k].val) ELSE list

\* lines 27-32: one iteration of the loader loop
ReadRow ==
    /\ pc = "read"
    /\ NextRecord(file, line) # 0
    /\ LET j == NextRecord(file, line)
           fs == RowFields(fieldnames(file), file[j])
           bad == FirstBad(fs)
       IN  /\ line' = j
           /\ R_list' = Appended(R_list, fs, 1, bad)
           /\ theta_test' = Appended(theta_test, fs, 2, bad)
           /\ phi_test' = Appended(phi_test, fs, 3, bad)
           /\ theta_real' = Appended(theta_real, fs, 4, bad)
           /\ phi_real' = Appended(phi_real, fs, 5, bad)
           /\ IF bad = 0
              THEN pc' = "read" /\ error' = error
              ELSE pc' = "error" /\ error' = Raise(fs[bad].err, 27 + bad)
    /\ UNCHANGED <<env, points, unpacked, seg, plotCalls>>

\* the loop left after any iteration
EndOfFile_early ==
    /\ pc = "read"
    /\ line' = line
    /\ pc' = "test_xyz"
    /\ UNCHANGED <<env, loaded, points, unpacked, seg, plotCalls, error>>

\* line 27: the reader is exhausted, the with block ends
EndOfFile ==
    /\ pc = "read"
    /\ NextRecord(file, line) = 0
    /\ line' = Len(file)
    /\ pc' = "test_xyz"
    /\ UNCHANGED <<env, loaded, points, unpacked, seg, plotCalls, error>>

\* zip(a, b, c) of three lists, mapped through the transform
Transformed(Rs, thetas, phis) ==
    [i \in 1..Min2(Len(Rs), Min2(Len(thetas), Len(phis))) |->
        spherical_to_cartesian_custom(Rs[i], thetas[i], phis[i])]

\* line 35
ComputeTest ==
    /\ pc = "test_xyz"
    /\ test_xyz' = Transformed(R_list, theta_test, phi_test)
    /\ pc' = "real_xyz"
    /\ UNCHANGED <<env, line, loaded, real_xyz, unpacked, seg, plotCalls, error>>

\* the second comprehension zipping the test angles again
ComputeReal_copied ==
    /\ pc = "real_xyz"
    /\ real_xyz' = Transformed(R_list, theta_test, phi_test)
    /\ pc' = "unpack_test"
    /\ UNCHANGED <<env, line, loaded, test_xyz, unpacked, seg, plotCalls, error>>

\* line 36
ComputeReal ==
    /\ pc = "real_xyz"
    /\ real_xyz' = Transformed(R_list, theta_real, phi_real)
    /\ pc' = "unpack_test"
    /\ UNCHANGED <<env, line, loaded, test_xyz, unpacked, seg, plotCalls, error>>

\* a transpose that yields three tuples for an empty list as well
ZipStar_transpose(pts) == [k \in 1..3 |-> [i \in 1..Len(pts) |-> pts[i][k]]]

\* zip(*pts): one tuple per coordinate, none at all for an empty list
ZipStar(pts) ==
    IF pts = <<>> THEN <<>> ELSE [k \in 1..3 |-> [i \in 1..Len(pts) |-> pts[i][k]]]

\* line 39: unpacking into three names needs exactly three tuples
UnpackTest ==
    /\ pc = "unpack_test"
    /\ LET z == ZipStar(test_xyz)
       IN  IF Len(z) = 3
           THEN /\ x_test' = z[1] /\ y_test' = z[2] /\ z_test' = z[3]
                /\ pc' = "unpack_real" /\ error' = error
           ELSE /\ UNCHANGED <<x_test, y_test, z_test>>
                /\ pc' = "error" /\ error' = Raise("ValueError", 39)
    /\ UNCHANGED <<env, line, loaded, points, x_real, y_real, z_real, seg, plotCalls>>

\* line 40
UnpackReal ==
    /\ pc = "unpack_real"
    /\ LET z == ZipStar(real_xyz)
       IN  IF Len(z) = 3
           THEN /\ x_real' = z[1] /\ y_real' = z[2] /\ z_real' = z[3]
                /\ pc' = "figure" /\ error' = error
           ELSE /\ UNCHANGED <<x_real, y_real, z_real>>
                /\ pc' = "error" /\ error' = Raise("ValueError", 40)
    /\ UNCHANGED <<env, line, loaded, points, x_test, y_test, z_test, seg, plotCalls>>

Call(fn, args) == [fn |-> fn, args |-> args]

\* lines 43-44
Figure ==
    /\ pc = "figure"
    /\ plotCalls' = plotCalls \o <<Call("figure", <<>>), Call("add_subplot", <<>>)>>
    /\ pc' = "scatter_test"
    /\ UNCHANGED <<env, line, loaded, points, unpacked, seg, error>>

\* line 47
ScatterTest ==
    /\ pc = "scatter_test"
    /\ plotCalls' = Append(plotCalls, Call("scatter", <<x_test, y_test, z_test>>))
    /\ pc' = "scatter_real"
    /\ UNCHANGED <<env, line, loaded, points, unpacked, seg, error>>

\* line 50
ScatterReal ==
    /\ pc = "scatter_real"
    /\ plotCalls' = Append(plotCalls, Call("scatter", <<x_real, y_real, z_real>>))
    /\ pc' = "segments"
    /\ UNCHANGED <<env, line, loaded, points, unpacked, seg, error>>

\* the pairs zip(test_xyz, real_xyz) yields
Pairs(ts, rs) == [i \in 1..Min2(Len(ts), Len(rs)) |-> <<ts[i], rs[i]>>]

\* the z coordinates taken from the points in the other order
SegmentArgs_swapped(t, r) == <<<<t[1], r[1]>>, <<t[2], r[2]>>, <<r[3], t[3]>>>>

\* line 54: the arguments of ax.plot for the pair (t, r)
SegmentArgs(t, r) == <<<<t[1], r[1]>>, <<t[2], r[2]>>, <<t[3], r[3]>>>>

\* lines 53-54: one iteration of the segment loop
PlotSegment ==
    /\ pc = "segments"
    /\ seg < Len(Pairs(test_xyz, real_xyz))
    /\ LET pr == Pairs(test_xyz, real_xyz)[seg + 1]
       IN  plotCalls' = Append(plotCalls, Call("plot", SegmentArgs(pr[1], pr[2])))
    /\ seg' = seg + 1
    /\ UNCHANGED <<env, pc, line, loaded, points, unpacked, error>>

LabelCalls ==
    <<Call("set_xlabel", <<>>), Call("set_ylabel", <<>>), Call("set_zlabel", <<>>),
      Call("set_title", <<>>), Call("legend", <<>>), Call("tight_layout", <<>>)>>

\* lines 57-62, once the segment loop is exhausted
Labels ==
    /\ pc = "segments"
    /\ seg >= Len(Pairs(test_xyz, real_xyz))
    /\ plotCalls' = plotCalls \o LabelCalls
    /\ pc' = "show"
    /\ UNCHANGED <<env, line, loaded, points, unpacked, seg, error>>

\* line 63
Show ==
    /\ pc = "show"
    /\ plotCalls' = Append(plotCalls, Call("show", <<>>))
    /\ pc' = "done"
    /\ UNCHANGED <<env, line, loaded, points, unpacked, seg, error>>

Next ==
    \/ Open
    \/ ReadRow
    \/ EndOfFile
    \/ ComputeTest
    \/ ComputeReal
    \/ UnpackTest
    \/ UnpackReal
    \/ Figure
    \/ ScatterTest
    \/ ScatterReal
    \/ PlotSegment
    \/ Labels
    \/ Show

Spec == Init /\ [][Next]_vars

-----------------------------------------------------------------------------
(* The transform on its own *)

InitFn ==
    /\ fileExists = FALSE
    /\ file = <<>>
    /\ pc = "call"
    /\ line = 0
    /\ R_list = <<>> /\ theta_test = <<>> /\ phi_test = <<>>
    /\ theta_real = <<>> /\ phi_real = <<>>
    /\ test_xyz = <<>> /\ real_xyz = <<>>
    /\ x_test = <<>> /\ y_test = <<>> /\ z_test = <<>>
    /\ x_real = <<>> /\ y_real = <<>> /\ z_real = <<>>
    /\ seg = 0
    /\ plotCalls = <<>>
    /\ error = NoError
    /\ arg \in Radii \X Angles \X Angles
    /\ ret = NoCall

\* lines 7-18: one call
CallTransform ==
    /\ pc = "call"
    /\ ret' = spherical_to_cartesian_custom(arg[1], arg[2], arg[3])
    /\ pc' = "returned"
    /\ UNCHANGED <<fileExists, file, arg, line, loaded, points, unpacked, seg,
                   plotCalls, error>>

NextFn == CallTransform

SpecFn == InitFn /\ [][NextFn]_vars

-----------------------------------------------------------------------------
(* Vocabulary of the properties *)

\* positions in the file of its data rows: the non-blank records after the header
DataIndex(f) == SelectSeq([j \in 1..Len(f) |-> j], LAMBDA j : j >= 2 /\ f[j] # <<>>)

\* the data rows of the file, in file order
DataRows(f) == [i \in 1..Len(DataIndex(f)) |-> f[DataIndex(f)[i]]]

\* the header names every required column exactly where the lookups find it
HasColumn(f, key) == \E j \in 1..Len(fieldnames(f)) : fieldnames(f)[j] = key

HeaderComplete(f) == \A k \in 1..5 : HasColumn(f, Columns[k])

\* position of a column in the header
ColumnOf(f, key) == CHOOSE j \in 1..Len(fieldnames(f)) : fieldnames(f)[j] = key

\* state of required field k in data row rec
FieldState(f, rec, k) ==
    IF ~HasColumn(f, Columns[k]) THEN "nocolumn"
    ELSE IF ColumnOf(f, Columns[k]) > Len(rec) THEN "absent"
    ELSE IF ~IsNumeric(rec[ColumnOf(f, Columns[k])]) THEN "nonnumeric"
    ELSE "number"

RowOk(f, rec) == \A k \in 1..5 : FieldState(f, rec, k) = "number"

\* the first required field of rec, in the order R, test theta, test phi,
\* real theta, real phi, that is not a number
FirstOffending(f, rec) == CHOOSE k \in 1..5 :
    /\ FieldState(f, rec, k) # "number"
    /\ \A j \in 1..(k - 1) : FieldState(f, rec, j) = "number"

\* the first data row that is not accepted, as an index into DataRows
FirstBadRow(f) == CHOOSE i \in 1..Len(DataRows(f)) :
    /\ ~RowOk(f, DataRows(f)[i])
    /\ \A j \in 1..(i - 1) : RowOk(f, DataRows(f)[j])

HasBadRow(f) == \E i \in 1..Len(DataRows(f)) : ~RowOk(f, DataRows(f)[i])

Columnwise == <<R_list, theta_test, phi_test, theta_real, phi_real>>

LoadPcs == {"open", "read"}
TransformPcs == {"test_xyz", "real_xyz"}
UnpackPcs == {"unpack_test", "unpack_real"}
PlotPcs == {"figure", "scatter_test", "scatter_real", "segments", "show"}

\* the exception was raised by the loader (lines 25-32)
LoadFailed == pc = "error" /\ error.lineno \in 25..32

\* the loader loop has finished without an exception
LoadFinished == pc \notin LoadPcs /\ ~LoadFailed

\* both comprehensions have been evaluated
TransformFinished == LoadFinished /\ pc \notin TransformPcs

SegmentCalls == SelectSeq(plotCalls, LAMBDA c : c.fn = "plot")

-----------------------------------------------------------------------------
(* Properties *)

\* C1: once the loader loop has finished, each of the five sequences has one
\* entry per data row of the file, and entry i is the number written in that
\* column of data row i (a file with data rows loads only under a header
\* that names all five columns).
C1_LoadedColumnsMatchRows ==
    LoadFinished =>
        \A k \in 1..5 :
            /\ Len(Columnwise[k]) = Len(DataRows(file))
            /\ DataRows(file) # <<>> => HeaderComplete(file)
            /\ \A i \in 1..Len(DataRows(file)) :
                  Columnwise[k][i] = FloatOf(DataRows(file)[i][ColumnOf(file, Columns[k])])

\* C1 witness: two different rows have been loaded under a header whose
\* column order differs from the order of the lookups.
C1_Witness ==
    /\ pc = "test_xyz"
    /\ fieldnames(file) = ShuffledHeader
    /\ Len(R_list) = 2
    /\ R_list[1] # R_list[2]
    /\ theta_test # theta_real

\* C5: once both comprehensions are evaluated, test_xyz and real_xyz have one
\* point per loaded row, and point i of each is the transform of the radius
\* and the two test (resp. real) angles loaded from row i.
C5_PointsAligned ==
    TransformFinished =>
        /\ Len(test_xyz) = Len(R_list)
        /\ Len(real_xyz) = Len(R_list)
        /\ Len(R_list) = Len(DataRows(file))
        /\ \A i \in 1..Len(R_list) :
              /\ test_xyz[i] = spherical_to_cartesian_custom(R_list[i], theta_test[i], phi_test[i])
              /\ real_xyz[i] = spherical_to_cartesian_custom(R_list[i], theta_real[i], phi_real[i])

\* C5 witness: two rows transformed, the test and real points of a row differ.
C5_Witness ==
    /\ pc = "unpack_test"
    /\ Len(test_xyz) = 2
    /\ test_xyz[1] # test_xyz[2]
    /\ test_xyz[1] # real_xyz[1]

\* C4: the segment loop issues one plot call per index, in index order; the
\* call for index i joins test_xyz[i] to real_xyz[i]. While the loop runs
\* the calls issued are those of the indices done; after it there are N.
C4_SegmentsPairSameIndex ==
    /\ Len(SegmentCalls) = seg
    /\ pc \in {"show", "done"} => (seg = Len(test_xyz) /\ seg = Len(real_xyz))
    /\ \A i \in 1..Len(SegmentCalls) :
          LET a == SegmentCalls[i].args
          IN  /\ <<a[1][1], a[2][1], a[3][1]>> = test_xyz[i]
              /\ <<a[1][2], a[2][2], a[3][2]>> = real_xyz[i]

\* C4 witness: the figure is shown with two segments between four distinct points.
C4_Witness ==
    /\ pc = "done"
    /\ Len(SegmentCalls) = 2
    /\ Cardinality({test_xyz[1], test_xyz[2], real_xyz[1], real_xyz[2]}) = 4

\* C6: a call with radius 0 returns the origin, whatever the two angles.
C6_ZeroRadiusIsOrigin ==
    (pc = "returned" /\ arg[1] = 0) => ret = <<0, 0, 0>>

\* C6 witness: a call with radius 0 and two angles off the axes has returned.
C6_Witness ==
    pc = "returned" /\ arg = <<0, 30 * Scale, 45 * Scale>>

\* C7: the point returned lies at distance |R| from the origin: x^2 + y^2 +
\* z^2 equals R^2 up to the rounding of the arithmetic (one percent of R^2
\* at the resolution 1/Scale of the model).
C7_NormIsRadius ==
    pc = "returned" =>
        Abs(ret[1] * ret[1] + ret[2] * ret[2] + ret[3] * ret[3] - arg[1] * arg[1])
            <= (arg[1] * arg[1]) \div 100

\* C7 witness: a call with a non-zero radius whose result has three non-zero
\* coordinates has returned.
C7_Witness ==
    /\ pc = "returned"
    /\ arg = <<2 * Scale, 30 * Scale, 45 * Scale>>
    /\ ret[1] # 0 /\ ret[2] # 0 /\ ret[3] # 0

\* the exception class the loader raises for a field in the given state
KindFor(state) ==
    CASE state = "nocolumn" -> "KeyError"
      [] state = "absent" -> "TypeError"
      [] state = "nonnumeric" -> "ValueError"

HeaderLacks(f) == f # <<>> /\ ~HeaderComplete(f)

\* C2 as stated, read for header rows that are not blank: a file whose header
\* lacks a required column ends the loader with a key-lookup error and
\* nothing plotted, however many rows it has.
C2_Original ==
    (fileExists /\ HeaderLacks(file) /\ fieldnames(file) # <<>> /\ pc \notin LoadPcs) =>
        /\ pc = "error" /\ error.kind = "KeyError" /\ error.lineno \in 28..32
        /\ plotCalls = <<>>

\* C2 amended: under a header that lacks a required column nothing is ever
\* plotted. With at least one data row the loader fails in its first
\* iteration, at the first required field of that row that is not a number
\* or has no column: with KeyError when that field is the missing column,
\* with the conversion error of the field when an earlier field of the row
\* is not numeric (ValueError) or absent (TypeError). With no data row the
\* loader raises nothing.
C2_MissingColumnFailsFirstRow ==
    (fileExists /\ HeaderLacks(file) /\ pc \notin LoadPcs) =>
        /\ plotCalls = <<>>
        /\ IF DataRows(file) = <<>>
           THEN ~LoadFailed
           ELSE LET rec == DataRows(file)[1]
                    k == FirstOffending(file, rec)
                IN  /\ pc = "error"
                    /\ line = DataIndex(file)[1]
                    /\ error = Raise(KindFor(FieldState(file, rec, k)), 27 + k)
                    /\ test_xyz = <<>> /\ real_xyz = <<>>

\* C2 witness: the third column is missing, two rows follow, and the first
\* row failed with KeyError at the third lookup.
C2_Witness ==
    /\ pc = "error"
    /\ error = Raise("KeyError", 30)
    /\ Len(DataRows(file)) = 2
    /\ Len(R_list) = 1

\* the number of data rows consumed before the one at position line
RowsBefore(f, ln) == Cardinality({i \in 1..Len(DataIndex(f)) : DataIndex(f)[i] < ln})

\* C3: a run whose loader raised has made no transform call, unpacked
\* nothing and issued no plotting call; the lists hold one entry per row
\* accepted before the failing one plus the entries of the failing row
\* before the failing field, and none for that field (no default). The
\* failure is final: no step follows it. Whenever something has been
\* plotted, every data row of the file was loaded.
C3_LoadFailureIsFinal ==
    /\ [](LoadFailed =>
            /\ test_xyz = <<>> /\ real_xyz = <<>>
            /\ unpacked = <<<<>>, <<>>, <<>>, <<>>, <<>>, <<>>>>
            /\ plotCalls = <<>> /\ seg = 0
            /\ \A k \in 1..5 :
                  Len(Columnwise[k]) =
                      IF error.lineno = 25 THEN 0
                      ELSE RowsBefore(file, line) + (IF 27 + k < error.lineno THEN 1 ELSE 0))
    /\ [](plotCalls # <<>> =>
            /\ fileExists /\ ~HasBadRow(file)
            /\ \A k \in 1..5 : Len(Columnwise[k]) = Len(DataRows(file)))
    /\ [][~LoadFailed]_vars

\* C3 witness: the second row failed at its second field after the first row
\* and the radius of the second had been appended.
C3_Witness ==
    /\ LoadFailed
    /\ error.lineno = 29
    /\ Len(R_list) = 2 /\ Len(theta_test) = 1

\* C8 as stated, read for files whose header has all five columns (a missing
\* column is the case of C2): a file with a row having a required field that
\* is not numeric or absent ends with a value-conversion error (ValueError)
\* at the first such row and the first such field, no later row being read.
C8_Original ==
    (fileExists /\ HeaderComplete(file) /\ HasBadRow(file) /\ pc \notin LoadPcs) =>
        LET i == FirstBadRow(file)
        IN  /\ pc = "error"
            /\ line = DataIndex(file)[i]
            /\ error = Raise("ValueError", 27 + FirstOffending(file, DataRows(file)[i]))

\* C8 amended: under a header with all five columns, a file with such a row
\* ends at the first such row and the first such field of it, no later row
\* being read and exactly the rows before it accepted; the error is
\* ValueError when the field is text that is not a number and TypeError when
\* the row is too short to have the field.
C8_FirstBadFieldAborts ==
    (fileExists /\ HeaderComplete(file) /\ HasBadRow(file) /\ pc \notin LoadPcs) =>
        LET i == FirstBadRow(file)
            k == FirstOffending(file, DataRows(file)[i])
        IN  /\ pc = "error"
            /\ line = DataIndex(file)[i]
            /\ error = Raise(KindFor(FieldState(file, DataRows(file)[i], k)), 27 + k)
            /\ Len(phi_real) = i - 1

\* C8 witness: a complete header, a good row, then a short row: TypeError at
\* the fourth lookup of the second row.
C8_Witness ==
    /\ HeaderComplete(file)
    /\ pc = "error"
    /\ error = Raise("TypeError", 31)
    /\ Len(phi_real) = 1 /\ Len(phi_test) = 2

Stage(p) ==
    CASE p \in LoadPcs -> 1
      [] p \in TransformPcs -> 2
      [] p \in UnpackPcs -> 3
      [] p \in PlotPcs -> 4
      [] p = "done" -> 5
      [] p = "error" -> 6

\* every data row of the file has been consumed
AllRowsRead == \A i \in 1..Len(DataIndex(file)) : DataIndex(file)[i] <= line

\* C9: the stages follow one another and never go back. Rows are read and
\* the five lists change only in the load stage; the point lists change only
\* in the transform stage, after the last row was read; plotting calls are
\* issued only in the plot stage, after both point lists were computed; and
\* from the plot stage on, the reader, the five lists and the two point
\* lists no longer change.
C9_StagesInOrder ==
    [][/\ Stage(pc') >= Stage(pc)
       /\ (line' # line \/ loaded' # loaded) => pc \in LoadPcs
       /\ points' # points => (pc \in TransformPcs /\ AllRowsRead)
       /\ plotCalls' # plotCalls =>
             /\ pc \in PlotPcs /\ AllRowsRead
             /\ Len(test_xyz) = Len(R_list) /\ Len(real_xyz) = Len(R_list)
       /\ (pc \in PlotPcs \/ plotCalls # <<>>) => UNCHANGED <<line, loaded, points>>
      ]_vars

\* C9 witness: a run with two rows has gone through all three stages.
C9_Witness ==
    /\ pc = "done"
    /\ Len(R_list) = 2 /\ Len(real_xyz) = 2
    /\ Len(plotCalls) > 2

\* C10: with no data row the loader and both comprehensions complete with
\* every sequence empty, and the run ends with ValueError at the first
\* unpacking (line 39) with nothing plotted; so whatever is plotted has at
\* least one point per series, and a figure shown has at least one segment.
C10_EmptyTableAbortsAtUnpack ==
    /\ (fileExists /\ DataRows(file) = <<>> /\ pc \notin LoadPcs) =>
          /\ \A k \in 1..5 : Columnwise[k] = <<>>
          /\ test_xyz = <<>> /\ real_xyz = <<>>
          /\ plotCalls = <<>>
          /\ \/ pc \in TransformPcs \cup {"unpack_test"}
             \/ pc = "error" /\ error = Raise("ValueError", 39)
    /\ plotCalls # <<>> =>
          /\ Len(test_xyz) >= 1 /\ Len(real_xyz) >= 1
          /\ Len(x_test) >= 1 /\ Len(x_real) >= 1
    /\ pc = "done" => Len(SegmentCalls) >= 1

\* C10 witness: a header with all five columns and no data row; the run
\* ended at line 39.
C10_Witness ==
    /\ HeaderComplete(file)
    /\ DataRows(file) = <<>>
    /\ pc = "error"
    /\ error = Raise("ValueError", 39)

====
